---- MODULE Spec2Model ----
(***************************************************************************)
(* Invoice Creation module (modules/invoice_creation/routes.py): the       *)
(* serial-number lookup cache, the aggregation of serial numbers into      *)
(* invoice lines, the SAP document payload and the local mirror records.   *)
(*                                                                         *)
(* The database is modelled by its committed tables (lookups, invoices)    *)
(* and, per request, by the objects pending in the request's session.      *)
(* SAP B1 is the environment: every login and every HTTP call has a        *)
(* nondeterministic outcome.  Time is counted in minutes.                  *)
(***************************************************************************)
EXTENDS Integers, Sequences, FiniteSets, TLC

\* ------------------------------------------------------------------ bounds
MaxLen == 3          \* longest serial_numbers / serial_items list of a request
MaxItems == 2        \* longest list of a request when requests follow each other
MaxInvoices == 1     \* invoice ids handed out by the auto-increment counter
MaxTime == 90        \* last minute the clock reaches
TickMinutes == 30    \* minutes by which the clock advances in one step
MaxRuns == 2         \* runs of a migration script on one database

\* -------------------------------------------------------- program constants
FreshnessMinutes == 60   \* timedelta(hours=1), in minutes
MinutesPerDay == 1440    \* timedelta(days=1), in minutes

\* --------------------------------------------------------------- data sets
Procs == {"r1", "r2"}
MainProc == "r1"
Serials == {"SN1", "SN2", "SN3"}
None == "None"
NoRow == 0

\* Records the SAP query 'Invoise_creation' can return for a serial number.
\* ("A_B","C") and ("A","B_C") are two different (item, warehouse) pairs.
Catalog ==
    { [ItemCode |-> "A_B", itemName |-> "item A_B", WhsCode |-> "C",   BPLid |-> "BPL1", BPLName |-> "Branch 1"],
      [ItemCode |-> "A",   itemName |-> "item A",   WhsCode |-> "B_C", BPLid |-> "BPL2", BPLName |-> "Branch 2"],
      [ItemCode |-> "A",   itemName |-> "item A",   WhsCode |-> "C",   BPLid |-> "BPL1", BPLName |-> "Branch 1"],
      [ItemCode |-> "A",   itemName |-> "item A",   WhsCode |-> "C",   BPLid |-> "BPL2", BPLName |-> "Branch 2"] }

\* All sequences over S of length 0..n.
SeqUpTo(S, n) == UNION { [1..k -> S] : k \in 0..n }

\* ------------------------------------------------------------------- state
VARIABLES
    now,          \* datetime.utcnow(), in minutes
    lookups,      \* table serial_number_lookups (committed rows, in id order)
    invoices,     \* table invoice_documents with its lines and serial rows (committed)
    nextId,       \* AUTO_INCREMENT counter of invoice_documents
    sapDocs,      \* documents SAP B1 has created so far
    pc,           \* position of each request
    req,          \* request.get_json() of each request
    cached,       \* lookup_serial: cached_lookup (row index or NoRow)
    invoice,      \* create / create_invoice: the InvoiceDocument pending in db.session
    items_data,   \* create_invoice: the ordered dict of line groups
    sap_invoice,  \* create_invoice: the payload sent to SAP
    call,         \* what the running request has done so far, and its response
    last,         \* the last request that returned
    schema,       \* the tables of the MySQL database and the BPL columns of invoice_documents
    bpl,          \* BPLColumnsMigration: the run of add_bpl_columns
    mc            \* MySQLMigrationInvoiceComplete: the run of run_migration

appVars == <<now, lookups, invoices, nextId, sapDocs, pc, req, cached, invoice,
             items_data, sap_invoice, call, last>>

migVars == <<schema, bpl, mc>>

vars == <<now, lookups, invoices, nextId, sapDocs, pc, req, cached, invoice,
          items_data, sap_invoice, call, last, schema, bpl, mc>>

NoData == [ItemCode |-> None, itemName |-> None, WhsCode |-> None, BPLid |-> None,
           BPLName |-> None]

\* The answer to sap.session.post(url, json=sap_invoice): none yet, an
\* exception raised by the transport, or a response with its status code,
\* its text and, for a created document, DocEntry, DocNum and DocTotal.
NoReply ==
    [kind |-> "none", status_code |-> 0, text |-> "", DocEntry |-> <<>>,
     DocNum |-> <<>>, DocTotal |-> <<>>]

NoCall ==
    [op |-> "none", serial |-> "", at |-> 0, seen |-> <<>>, logins |-> 0,
     queries |-> 0, posts |-> 0, code |-> 0, message |-> "", named |-> "",
     data |-> NoData, invoice_id |-> 0, built |-> FALSE,
     customer |-> [has_customer |-> FALSE, customer_code |-> <<>>], nserials |-> 0,
     reply |-> NoReply, doc_date |-> <<>>, permitted |-> TRUE]

\* The serial numbers of a request that got past its input checks.
NoReq == <<>>

\* The customer codes a caller sends: none, '', ' ' and ' C '.  A text is a
\* sequence of characters.
CustomerInputs ==
    { [has_customer |-> FALSE, customer_code |-> <<>>],
      [has_customer |-> TRUE,  customer_code |-> <<>>],
      [has_customer |-> TRUE,  customer_code |-> <<" ">>],
      [has_customer |-> TRUE,  customer_code |-> <<" ", "C", " ">>] }

\* data.get('customer_code', ''): the text sent, '' when there is none.
GetCustomer(c) == IF c.has_customer THEN c.customer_code ELSE <<>>

\* An InvoiceDocument; an unset column is the empty sequence.
NoInvoice ==
    [id |-> 0, customer_code |-> <<>>, status |-> None, total_amount |-> <<>>,
     sap_doc_entry |-> <<>>, sap_doc_num |-> <<>>, json_payload |-> <<>>,
     sap_response |-> None, lines |-> <<>>]

\* InvoiceDocument(): a new record with the defaults of its columns; the
\* total of a new record is zero.
InvoiceDocument == [NoInvoice EXCEPT !.total_amount = <<0>>]

\* A record without the status set.
DraftUnmarked(id, customer_code) ==
    [InvoiceDocument EXCEPT !.id = id, !.customer_code = customer_code]

\* The local invoice record create_invoice adds and flushes: the flush gives
\* it its id.
Draft(id, customer_code) ==
    [InvoiceDocument EXCEPT !.id = id, !.customer_code = customer_code,
                            !.status = "draft"]

NoPayload ==
    [DocDate |-> 0, DocDueDate |-> 0, CardCode |-> <<>>,
     BPL_IDAssignedToInvoice |-> None, BPLName |-> None, DocumentLines |-> <<>>]

\* ------------------------------------------------------------ lookup cache

\* SerialNumberLookup.query.filter_by(serial_number=...).first()
FindLookup(table, serial_number) ==
    IF \E i \in 1..Len(table) : table[i].serial_number = serial_number
    THEN CHOOSE i \in 1..Len(table) :
            /\ table[i].serial_number = serial_number
            /\ \A j \in 1..(i - 1) : table[j].serial_number # serial_number
    ELSE NoRow

\* The comparison turned around.
IsFreshInverted(row, t) == (t - row.last_updated) > FreshnessMinutes

\* (datetime.utcnow() - cached_lookup.last_updated) < timedelta(hours=1)
IsFresh(row, t) == (t - row.last_updated) < FreshnessMinutes

\* The row lookup_serial writes from the first record of the SAP result.
LookupRow(serial_number, item_data, t) ==
    [serial_number  |-> serial_number,
     item_code      |-> item_data.ItemCode,
     item_name      |-> item_data.itemName,
     warehouse_code |-> item_data.WhsCode,
     branch_id      |-> item_data.BPLid,
     branch_name    |-> item_data.BPLName,
     last_updated   |-> t]

\* serial_number VARCHAR(100) NOT NULL UNIQUE: an INSERT of a second row with
\* the same serial number raises IntegrityError.
CanInsertLookup(table, serial_number) ==
    \A i \in 1..Len(table) : table[i].serial_number # serial_number

\* A store that always adds a row.
StoreLookupAppend(table, idx, row) == Append(table, row)

\* A store that writes over the first row of the table.
StoreLookupFirst(table, idx, row) ==
    IF table = <<>> THEN <<row>> ELSE [table EXCEPT ![1] = row]

\* A store that keeps only the row it writes.
StoreLookupAlone(table, idx, row) == <<row>>

\* The "Cache the result" block: update the row found by the cache check in
\* place, or add a new row.
StoreLookup(table, idx, row) ==
    IF idx # NoRow THEN [table EXCEPT ![idx] = row] ELSE Append(table, row)

\* An answer with the item name in the place of the item code.
CachedDataShifted(row) ==
    [ItemCode |-> row.item_name, itemName |-> row.item_name,
     WhsCode |-> row.warehouse_code, BPLid |-> row.branch_id,
     BPLName |-> row.branch_name]

\* The JSON a cache hit answers with.
CachedData(row) ==
    [ItemCode |-> row.item_code, itemName |-> row.item_name,
     WhsCode |-> row.warehouse_code, BPLid |-> row.branch_id,
     BPLName |-> row.branch_name]

\* What the SAP SQL query can answer with status 200, data.get('value', []),
\* when the records come from the set items.
SapValues(items) == {<<>>} \cup { <<c>> : c \in items }

\* ------------------------------------------------------------- aggregation

\* Request texts are sequences of characters; str.strip() drops the white
\* space at both ends.
RECURSIVE LStrip(_)
LStrip(s) == IF s # <<>> /\ Head(s) = " " THEN LStrip(Tail(s)) ELSE s

RECURSIVE RStrip(_)
RStrip(s) == IF s # <<>> /\ s[Len(s)] = " " THEN RStrip(SubSeq(s, 1, Len(s) - 1)) ELSE s

\* The text taken as it was sent.
StripNone(s) == s

Strip(s) == RStrip(LStrip(s))

\* The dict key of a line group.
GroupKey(row) == row.item_code \o "_" \o row.warehouse_code

\* Position of key in the ordered dict items, 0 when it is not in it.
KeyIndex(items, key) ==
    IF \E i \in 1..Len(items) : items[i].key = key
    THEN CHOOSE i \in 1..Len(items) : items[i].key = key
    ELSE 0

\* The entry a key gets when it is first seen.
NewGroup(key, row) ==
    [key |-> key,
     ItemCode |-> row.item_code,
     ItemDescription |-> row.item_name,
     WarehouseCode |-> row.warehouse_code,
     TaxCode |-> "CSGST@18",
     Quantity |-> 0,
     SerialNumbers |-> <<>>,
     BPL_IDAssignedToInvoice |-> row.branch_id,
     BPLName |-> row.branch_name]

\* AddSerial with the count of a group started only at its second serial.
AddSerialUncounted(items, serial_number, row, line_number) ==
    LET key   == GroupKey(row)
        isNew == KeyIndex(items, key) = 0
        with  == IF isNew THEN Append(items, NewGroup(key, row)) ELSE items
        k     == KeyIndex(with, key)
    IN  [with EXCEPT ![k].Quantity = IF isNew THEN @ ELSE @ + 1,
                     ![k].SerialNumbers = Append(@,
                         [InternalSerialNumber |-> serial_number,
                          BaseLineNumber |-> line_number,
                          Quantity |-> 1])]

\* AddSerial with a new group put in front of the others.
AddSerialFront(items, serial_number, row, line_number) ==
    LET key   == GroupKey(row)
        with  == IF KeyIndex(items, key) = 0 THEN <<NewGroup(key, row)>> \o items
                 ELSE items
        k     == KeyIndex(with, key)
    IN  [with EXCEPT ![k].Quantity = @ + 1,
                     ![k].SerialNumbers = Append(@,
                         [InternalSerialNumber |-> serial_number,
                          BaseLineNumber |-> line_number,
                          Quantity |-> 1])]

\* One pass of the grouping loop for a serial number whose lookup row was
\* found: the group of its key (added at the end of the dict when new) counts
\* one more and gets the serial appended with the current line_number.
AddSerial(items, serial_number, row, line_number) ==
    LET key   == GroupKey(row)
        with  == IF KeyIndex(items, key) = 0 THEN Append(items, NewGroup(key, row))
                 ELSE items
        k     == KeyIndex(with, key)
    IN  [with EXCEPT ![k].Quantity = @ + 1,
                     ![k].SerialNumbers = Append(@,
                         [InternalSerialNumber |-> serial_number,
                          BaseLineNumber |-> line_number,
                          Quantity |-> 1])]

\* The grouping loop going on to the next serial number when one has no
\* lookup row.
RECURSIVE GroupSerialsSkip(_, _, _, _, _)
GroupSerialsSkip(serial_numbers, i, table, items, line_number) ==
    IF i > Len(serial_numbers)
    THEN [ok |-> TRUE, items |-> items, missing |-> ""]
    ELSE LET idx == FindLookup(table, serial_numbers[i])
         IN  IF idx = NoRow
             THEN GroupSerialsSkip(serial_numbers, i + 1, table, items, line_number)
             ELSE GroupSerialsSkip(serial_numbers, i + 1, table,
                      AddSerial(items, serial_numbers[i], table[idx], line_number),
                      line_number)

\* The grouping loop over serial_numbers[i..]: it stops at the first serial
\* number that has no lookup row.
RECURSIVE GroupSerials(_, _, _, _, _)
GroupSerials(serial_numbers, i, table, items, line_number) ==
    IF i > Len(serial_numbers)
    THEN [ok |-> TRUE, items |-> items, missing |-> ""]
    ELSE LET idx == FindLookup(table, serial_numbers[i])
         IN  IF idx = NoRow
             THEN [ok |-> FALSE, items |-> items, missing |-> serial_numbers[i]]
             ELSE GroupSerials(serial_numbers, i + 1, table,
                      AddSerial(items, serial_numbers[i], table[idx], line_number),
                      line_number)

\* ---------------------------------------------------------- payload, lines

\* One entry of DocumentLines.
DocumentLine(item_data) ==
    [ItemCode |-> item_data.ItemCode,
     ItemDescription |-> item_data.ItemDescription,
     Quantity |-> item_data.Quantity,
     WarehouseCode |-> item_data.WarehouseCode,
     TaxCode |-> item_data.TaxCode,
     SerialNumbers |-> item_data.SerialNumbers]

\* A payload with the branch of the last dict entry in its header.
BuildPayloadLastBranch(customer_code, items, t) ==
    [DocDate |-> t,
     DocDueDate |-> t + MinutesPerDay,
     CardCode |-> customer_code,
     BPL_IDAssignedToInvoice |-> items[Len(items)].BPL_IDAssignedToInvoice,
     BPLName |-> items[Len(items)].BPLName,
     DocumentLines |-> [k \in 1..Len(items) |-> DocumentLine(items[k])]]

\* The payload: dates from the clock, customer, branch id and branch name of
\* the first dict entry, one document line per dict entry.
BuildPayload(customer_code, items, t) ==
    [DocDate |-> t,
     DocDueDate |-> t + MinutesPerDay,
     CardCode |-> customer_code,
     BPL_IDAssignedToInvoice |-> items[1].BPL_IDAssignedToInvoice,
     BPLName |-> items[1].BPLName,
     DocumentLines |-> [k \in 1..Len(items) |-> DocumentLine(items[k])]]

\* An InvoiceLine left with the tax code the column defaults to.
LocalLineDefaultTax(item_data, line_number) ==
    [line_number |-> line_number,
     item_code |-> item_data.ItemCode,
     item_description |-> item_data.ItemDescription,
     quantity |-> item_data.Quantity,
     warehouse_code |-> item_data.WarehouseCode,
     tax_code |-> "GST18",
     serials |-> [j \in 1..Len(item_data.SerialNumbers) |->
                    [serial_number |-> item_data.SerialNumbers[j].InternalSerialNumber,
                     base_line_number |-> item_data.SerialNumbers[j].BaseLineNumber,
                     quantity |-> item_data.SerialNumbers[j].Quantity]]]

\* The InvoiceLine of the dict entry reached with the given line_number, with
\* its InvoiceSerialNumber rows.
LocalLine(item_data, line_number) ==
    [line_number |-> line_number,
     item_code |-> item_data.ItemCode,
     item_description |-> item_data.ItemDescription,
     quantity |-> item_data.Quantity,
     warehouse_code |-> item_data.WarehouseCode,
     tax_code |-> item_data.TaxCode,
     serials |-> [j \in 1..Len(item_data.SerialNumbers) |->
                    [serial_number |-> item_data.SerialNumbers[j].InternalSerialNumber,
                     base_line_number |-> item_data.SerialNumbers[j].BaseLineNumber,
                     quantity |-> item_data.SerialNumbers[j].Quantity]]]

\* Lines numbered from one.
LocalLinesFromOne(items, line_number) ==
    [k \in 1..Len(items) |-> LocalLine(items[k], line_number + k)]

\* The lines the second loop adds: line_number starts at the value the
\* grouping loop left and grows by one per dict entry.
LocalLines(items, line_number) ==
    [k \in 1..Len(items) |-> LocalLine(items[k], line_number + (k - 1))]

\* UNIQUE KEY unique_serial_per_line (invoice_line_id, serial_number): the
\* INSERT of a line's serial rows raises IntegrityError when a serial number
\* occurs twice in the line.
SerialRowsClash(line) ==
    \E i, j \in 1..Len(line.serials) :
        i # j /\ line.serials[i].serial_number = line.serials[j].serial_number

\* ----------------------------------------------------------- lookup_serial

\* lookup_serial, from the request to the cache check: a blank serial number
\* is answered 400; a cache row younger than one hour is answered from the
\* cache; anything else goes on to SAP.
LS_Begin(p, inputs) ==
    /\ pc[p] = "idle"
    /\ \E serial_number \in inputs :
        LET idx == FindLookup(lookups, serial_number)
            c0  == [NoCall EXCEPT !.op = "lookup_serial", !.serial = serial_number,
                                  !.at = now]
        IN  IF serial_number = ""
               THEN /\ call' = [call EXCEPT ![p] =
                          [c0 EXCEPT !.code = 400, !.message = "Serial number is required"]]
                    /\ pc' = [pc EXCEPT ![p] = "ret"]
                    /\ UNCHANGED <<cached, req>>
               ELSE IF idx # NoRow /\ IsFresh(lookups[idx], now)
               THEN /\ call' = [call EXCEPT ![p] =
                          [c0 EXCEPT !.seen = <<lookups[idx].last_updated>>, !.code = 200,
                                     !.message = "cached",
                                     !.data = CachedData(lookups[idx])]]
                    /\ pc' = [pc EXCEPT ![p] = "ret"]
                    /\ cached' = [cached EXCEPT ![p] = idx]
                    /\ req' = [req EXCEPT ![p] = <<serial_number>>]
               ELSE /\ call' = [call EXCEPT ![p] =
                          [c0 EXCEPT !.seen = IF idx = NoRow THEN <<>>
                                               ELSE <<lookups[idx].last_updated>>]]
                    /\ pc' = [pc EXCEPT ![p] = "ls_login"]
                    /\ cached' = [cached EXCEPT ![p] = idx]
                    /\ req' = [req EXCEPT ![p] = <<serial_number>>]
    /\ UNCHANGED <<now, lookups, invoices, nextId, sapDocs, invoice, items_data,
                   sap_invoice, last>>
    /\ UNCHANGED migVars

\* A login whose failure drops the row the cache check found.
LS_LoginDrop(p) ==
    /\ pc[p] = "ls_login"
    /\ \E ok \in BOOLEAN :
        IF ok
        THEN /\ call' = [call EXCEPT ![p].logins = @ + 1]
             /\ pc' = [pc EXCEPT ![p] = "ls_query"]
             /\ UNCHANGED lookups
        ELSE /\ call' = [call EXCEPT ![p].logins = @ + 1, ![p].code = 500,
                                     ![p].message = "SAP connection failed"]
             /\ pc' = [pc EXCEPT ![p] = "ret"]
             /\ lookups' = SelectSeq(lookups,
                               LAMBDA row : row.serial_number # call[p].serial)
    /\ UNCHANGED <<now, invoices, nextId, sapDocs, req, cached, invoice,
                   items_data, sap_invoice, last>>
    /\ UNCHANGED migVars

\* sap.ensure_logged_in(): SAP decides.
LS_Login(p) ==
    /\ pc[p] = "ls_login"
    /\ \E ok \in BOOLEAN :
        IF ok
        THEN /\ call' = [call EXCEPT ![p].logins = @ + 1]
             /\ pc' = [pc EXCEPT ![p] = "ls_query"]
        ELSE /\ call' = [call EXCEPT ![p].logins = @ + 1, ![p].code = 500,
                                     ![p].message = "SAP connection failed"]
             /\ pc' = [pc EXCEPT ![p] = "ret"]
    /\ UNCHANGED <<now, lookups, invoices, nextId, sapDocs, req, cached, invoice,
                   items_data, sap_invoice, last>>
    /\ UNCHANGED migVars

\* The POST of the SQL query and what lookup_serial does with the answer.
LS_Query(p, answers) ==
    /\ pc[p] = "ls_query"
    /\ pc' = [pc EXCEPT ![p] = "ret"]
    /\ LET serial_number == req[p][1]
           c1 == [call[p] EXCEPT !.queries = @ + 1]
       IN \/ \* the transport fails: except Exception
             /\ call' = [call EXCEPT ![p] =
                    [c1 EXCEPT !.code = 500, !.message = "SAP lookup error"]]
             /\ UNCHANGED lookups
          \/ \* status other than 200
             /\ call' = [call EXCEPT ![p] =
                    [c1 EXCEPT !.code = 500, !.message = "SAP query failed"]]
             /\ UNCHANGED lookups
          \/ \* status 200
             \E values \in answers :
                IF values = <<>>
                THEN /\ call' = [call EXCEPT ![p] =
                           [c1 EXCEPT !.code = 404, !.message = "not found in SAP",
                                      !.named = serial_number]]
                     /\ UNCHANGED lookups
                ELSE IF cached[p] = NoRow /\ ~CanInsertLookup(lookups, serial_number)
                THEN \* db.session.commit() raises IntegrityError: except Exception
                     /\ call' = [call EXCEPT ![p] =
                           [c1 EXCEPT !.code = 500, !.message = "SAP lookup error"]]
                     /\ UNCHANGED lookups
                ELSE /\ lookups' = StoreLookup(lookups, cached[p],
                                        LookupRow(serial_number, values[1], now))
                     /\ call' = [call EXCEPT ![p] =
                           [c1 EXCEPT !.code = 200, !.message = "fetched",
                                      !.data = values[1]]]
    /\ UNCHANGED <<now, invoices, nextId, sapDocs, req, cached, invoice, items_data,
                   sap_invoice, last>>
    /\ UNCHANGED migVars

\* ------------------------------------------------- validate_serial_number

\* validate_serial_number: the same SAP query as lookup_serial, answered to
\* the caller without reading or writing the lookup table.
VS(p, inputs, answers) ==
    /\ pc[p] = "idle"
    /\ pc' = [pc EXCEPT ![p] = "ret"]
    /\ \E serial_number \in inputs :
        LET c0 == [NoCall EXCEPT !.op = "validate_serial_number",
                                 !.serial = serial_number, !.at = now]
            c1 == [c0 EXCEPT !.logins = 1]
            c2 == [c1 EXCEPT !.queries = 1]
        IN  IF serial_number = ""
            THEN call' = [call EXCEPT ![p] =
                     [c0 EXCEPT !.code = 400, !.message = "Serial number is required"]]
            ELSE \/ \* sap.ensure_logged_in() is False
                    call' = [call EXCEPT ![p] =
                        [c1 EXCEPT !.code = 500, !.message = "SAP connection failed"]]
                 \/ \* the transport fails
                    call' = [call EXCEPT ![p] =
                        [c2 EXCEPT !.code = 500, !.message = "Validation request failed"]]
                 \/ \* status other than 200
                    call' = [call EXCEPT ![p] =
                        [c2 EXCEPT !.code = 500, !.message = "SAP API error"]]
                 \/ \* status 200
                    \E results \in answers :
                        IF results = <<>>
                        THEN call' = [call EXCEPT ![p] =
                                 [c2 EXCEPT !.code = 200,
                                            !.message = "not found or has no available quantity"]]
                        ELSE call' = [call EXCEPT ![p] =
                                 [c2 EXCEPT !.code = 200, !.message = "validated",
                                            !.data = results[1]]]
    /\ UNCHANGED <<now, lookups, invoices, nextId, sapDocs, req, cached, invoice,
                   items_data, sap_invoice, last>>
    /\ UNCHANGED migVars

\* ---------------------------------------------------------- create_invoice

\* create_invoice, from the request to the flush of the draft record: a blank
\* customer code or an empty serial list is answered 400 before anything is
\* created.
\* The caller is logged in (@login_required) and holds the permission
\* 'invoice_creation' or not; the request carries a doc_date or none.  The
\* function reads neither.
CI_Request(p, lists, dates, users) ==
    /\ pc[p] = "idle"
    /\ \E c \in CustomerInputs, serial_numbers \in lists,
          doc_date \in dates, permitted \in users :
        LET customer_code == Strip(GetCustomer(c))
            c0 == [NoCall EXCEPT !.op = "create_invoice", !.at = now, !.customer = c,
                                 !.nserials = Len(serial_numbers),
                                 !.doc_date = doc_date, !.permitted = permitted]
        IN  IF customer_code = <<>>
               THEN /\ call' = [call EXCEPT ![p] =
                          [c0 EXCEPT !.code = 400, !.message = "Customer code is required"]]
                    /\ pc' = [pc EXCEPT ![p] = "ret"]
                    /\ UNCHANGED <<invoice, nextId, req>>
               ELSE IF serial_numbers = <<>>
               THEN /\ call' = [call EXCEPT ![p] =
                          [c0 EXCEPT !.code = 400,
                                     !.message = "At least one serial number is required"]]
                    /\ pc' = [pc EXCEPT ![p] = "ret"]
                    /\ UNCHANGED <<invoice, nextId, req>>
               ELSE /\ req' = [req EXCEPT ![p] = serial_numbers]
                    /\ invoice' = [invoice EXCEPT ![p] = Draft(nextId, customer_code)]
                    /\ nextId' = nextId + 1
                    /\ call' = [call EXCEPT ![p] = [c0 EXCEPT !.invoice_id = nextId]]
                    /\ pc' = [pc EXCEPT ![p] = "ci_resolve"]
    /\ UNCHANGED <<now, lookups, invoices, sapDocs, cached, items_data, sap_invoice, last>>
    /\ UNCHANGED migVars

\* A create_invoice request without a doc_date, of a user who holds the
\* permission.
CI_Begin(p, lists) == CI_Request(p, lists, {<<>>}, {TRUE})

\* The grouping loop: every serial number is looked up in serial_number_lookups;
\* the first one without a row ends the request with 400.
CI_Resolve(p) ==
    /\ pc[p] = "ci_resolve"
    /\ LET r == GroupSerials(req[p], 1, lookups, <<>>, 0)
       IN  IF r.ok
           THEN /\ items_data' = [items_data EXCEPT ![p] = r.items]
                /\ pc' = [pc EXCEPT ![p] = "ci_build"]
                /\ UNCHANGED call
           ELSE /\ call' = [call EXCEPT ![p].code = 400,
                                        ![p].message = "not found. Please lookup first.",
                                        ![p].named = r.missing]
                /\ pc' = [pc EXCEPT ![p] = "ret"]
                /\ UNCHANGED items_data
    /\ UNCHANGED <<now, lookups, invoices, nextId, sapDocs, req, cached, invoice,
                   sap_invoice, last>>
    /\ UNCHANGED migVars

\* The payload and the local lines.  The serial rows of a line are inserted
\* by the flush of the next line; when they clash, the IntegrityError reaches
\* the outer handler: rollback, 500.
CI_Build(p) ==
    /\ pc[p] = "ci_build"
    /\ LET lines == LocalLines(items_data[p], 0)
           payload == BuildPayload(invoice[p].customer_code, items_data[p], now)
       IN  IF \E k \in 1..(Len(lines) - 1) : SerialRowsClash(lines[k])
           THEN /\ invoice' = [invoice EXCEPT ![p] = NoInvoice]
                /\ call' = [call EXCEPT ![p].code = 500, ![p].message = "Internal error"]
                /\ pc' = [pc EXCEPT ![p] = "ret"]
                /\ UNCHANGED sap_invoice
           ELSE /\ sap_invoice' = [sap_invoice EXCEPT ![p] = payload]
                /\ invoice' = [invoice EXCEPT ![p].lines = lines,
                                              ![p].json_payload = <<payload>>]
                /\ call' = [call EXCEPT ![p].built = TRUE]
                /\ pc' = [pc EXCEPT ![p] = "ci_login"]
    /\ UNCHANGED <<now, lookups, invoices, nextId, sapDocs, req, cached, items_data, last>>
    /\ UNCHANGED migVars

\* sap.ensure_logged_in() before the submission: on failure the request
\* returns 500 without a commit.
CI_Login(p) ==
    /\ pc[p] = "ci_login"
    /\ \E ok \in BOOLEAN :
        IF ok
        THEN /\ call' = [call EXCEPT ![p].logins = @ + 1]
             /\ pc' = [pc EXCEPT ![p] = "ci_post"]
        ELSE /\ call' = [call EXCEPT ![p].logins = @ + 1, ![p].code = 500,
                                     ![p].message = "SAP connection failed"]
             /\ pc' = [pc EXCEPT ![p] = "ret"]
    /\ UNCHANGED <<now, lookups, invoices, nextId, sapDocs, req, cached, invoice,
                   items_data, sap_invoice, last>>
    /\ UNCHANGED migVars

\* db.session.commit() of the invoice with its lines: it inserts the serial
\* rows of the last line, and fails when they clash.
CommitFails(inv) == inv.lines # <<>> /\ SerialRowsClash(inv.lines[Len(inv.lines)])

\* A commit that writes the status of inv to every invoice record.
CI_CommitAll(p, inv, c1, code, message) ==
    IF CommitFails(inv)
    THEN /\ invoice' = [invoice EXCEPT ![p] = NoInvoice]
         /\ call' = [call EXCEPT ![p] = [c1 EXCEPT !.code = 500, !.message = "Internal error"]]
         /\ UNCHANGED invoices
    ELSE /\ invoice' = [invoice EXCEPT ![p] = inv]
         /\ invoices' = Append([i \in 1..Len(invoices) |->
                                    [invoices[i] EXCEPT !.status = inv.status]], inv)
         /\ call' = [call EXCEPT ![p] = [c1 EXCEPT !.code = code, !.message = message]]

\* A commit that marks every record 'created'.
CI_CommitCreated(p, inv, c1, code, message) ==
    IF CommitFails(inv)
    THEN /\ invoice' = [invoice EXCEPT ![p] = NoInvoice]
         /\ call' = [call EXCEPT ![p] = [c1 EXCEPT !.code = 500, !.message = "Internal error"]]
         /\ UNCHANGED invoices
    ELSE /\ invoice' = [invoice EXCEPT ![p] = [inv EXCEPT !.status = "created"]]
         /\ invoices' = Append(invoices, [inv EXCEPT !.status = "created"])
         /\ call' = [call EXCEPT ![p] = [c1 EXCEPT !.code = code, !.message = message]]

\* A commit after which a failed submission has been sent once more.
CI_CommitRetry(p, inv, c1, code, message) ==
    IF CommitFails(inv)
    THEN /\ invoice' = [invoice EXCEPT ![p] = NoInvoice]
         /\ call' = [call EXCEPT ![p] = [c1 EXCEPT !.code = 500, !.message = "Internal error"]]
         /\ UNCHANGED invoices
    ELSE /\ invoice' = [invoice EXCEPT ![p] = inv]
         /\ invoices' = Append(invoices, inv)
         /\ call' = [call EXCEPT ![p] =
                [c1 EXCEPT !.code = code, !.message = message,
                           !.posts = IF inv.status = "failed" THEN @ + 1 ELSE @]]

\* A commit whose failure leaves the record with the lines flushed before it.
CI_CommitFlushed(p, inv, c1, code, message) ==
    IF CommitFails(inv)
    THEN /\ invoice' = [invoice EXCEPT ![p] = NoInvoice]
         /\ call' = [call EXCEPT ![p] = [c1 EXCEPT !.code = 500, !.message = "Internal error"]]
         /\ invoices' = Append(invoices,
                [inv EXCEPT !.lines = SubSeq(inv.lines, 1, Len(inv.lines) - 1)])
    ELSE /\ invoice' = [invoice EXCEPT ![p] = inv]
         /\ invoices' = Append(invoices, inv)
         /\ call' = [call EXCEPT ![p] = [c1 EXCEPT !.code = code, !.message = message]]

\* The end of a create_invoice whose commit was attempted with the record
\* inv: committed, or - when the commit raises - the outer handler's
\* rollback and 500.
CI_Commit(p, inv, c1, code, message) ==
    IF CommitFails(inv)
    THEN /\ invoice' = [invoice EXCEPT ![p] = NoInvoice]
         /\ call' = [call EXCEPT ![p] = [c1 EXCEPT !.code = 500, !.message = "Internal error"]]
         /\ UNCHANGED invoices
    ELSE /\ invoice' = [invoice EXCEPT ![p] = inv]
         /\ invoices' = Append(invoices, inv)
         /\ call' = [call EXCEPT ![p] = [c1 EXCEPT !.code = code, !.message = message]]

\* The POST of the document to /b1s/v1/Invoices and what follows it.
CI_Post(p) ==
    /\ pc[p] = "ci_post"
    /\ pc' = [pc EXCEPT ![p] = "ret"]
    /\ LET c1 == [call[p] EXCEPT !.posts = @ + 1]
       IN \/ \* the transport fails
             /\ CI_Commit(p, [invoice[p] EXCEPT !.sap_response = "exception text",
                                                !.status = "failed"],
                          [c1 EXCEPT !.reply = [NoReply EXCEPT !.kind = "exception",
                                                               !.text = "exception text"]],
                          500, "SAP invoice creation error")
             /\ UNCHANGED sapDocs
          \/ \* status 201: SAP created the document
             \E DocTotal \in {<<>>, <<118>>} :
                /\ sapDocs' = sapDocs + 1
                /\ CI_Commit(p, [invoice[p] EXCEPT
                                    !.sap_response = "document",
                                    !.sap_doc_entry = <<sapDocs + 1>>,
                                    !.sap_doc_num = <<sapDocs + 1>>,
                                    !.status = "created",
                                    !.total_amount = IF DocTotal = <<>> THEN <<0>>
                                                     ELSE DocTotal],
                             [c1 EXCEPT !.reply = [kind |-> "response", status_code |-> 201,
                                                   text |-> "document",
                                                   DocEntry |-> <<sapDocs + 1>>,
                                                   DocNum |-> <<sapDocs + 1>>,
                                                   DocTotal |-> DocTotal]],
                             200, "created successfully")
          \/ \* any other status
             \E text \in {"", "sap error json", "plain text"} :
                /\ CI_Commit(p, [invoice[p] EXCEPT !.sap_response = text,
                                                   !.status = "failed"],
                             [c1 EXCEPT !.reply = [NoReply EXCEPT !.kind = "response",
                                                                  !.status_code = 400,
                                                                  !.text = text]],
                             500,
                             IF text = "" THEN "SAP invoice creation failed: status"
                             ELSE IF text = "sap error json" THEN "sap error message"
                             ELSE text)
                /\ UNCHANGED sapDocs
    /\ UNCHANGED <<now, lookups, nextId, req, cached, items_data, sap_invoice, last>>
    /\ UNCHANGED migVars

\* ------------------------------------------------------------------ create

\* The item a caller of create sends for a serial number.
CreateItem == [item_code |-> "A", item_name |-> "item A", warehouse |-> "C"]

\* The SerialNumberLookup rows create adds, one per entry of serial_items.
CreateRows(serial_items, t) ==
    [k \in 1..Len(serial_items) |->
        [serial_number  |-> serial_items[k],
         item_code      |-> CreateItem.item_code,
         item_name      |-> CreateItem.item_name,
         warehouse_code |-> CreateItem.warehouse,
         branch_id      |-> None,
         branch_name    |-> None,
         last_updated   |-> t]]

\* Whether the INSERT of rows into table breaks the UNIQUE serial_number.
RowsClash(table, rows) ==
    \/ \E i \in 1..Len(rows) : ~CanInsertLookup(table, rows[i].serial_number)
    \/ \E i, j \in 1..Len(rows) : i # j /\ rows[i].serial_number = rows[j].serial_number

\* create with a JSON POST: a user without the permission 'invoice_creation'
\* is redirected to the dashboard; otherwise a draft InvoiceDocument and one
\* lookup row per serial item, committed together; a failed commit is rolled
\* back, 500.
CreateAs(p, lists, users) ==
    /\ pc[p] = "idle"
    /\ pc' = [pc EXCEPT ![p] = "ret"]
    /\ \E c \in CustomerInputs, serial_items \in lists, permitted \in users :
        LET c0 == [NoCall EXCEPT !.op = "create", !.at = now, !.customer = c,
                                 !.nserials = Len(serial_items),
                                 !.permitted = permitted]
            rows == CreateRows(serial_items, now)
            customer_code == GetCustomer(c)
            draft == [NoInvoice EXCEPT !.id = nextId, !.customer_code = customer_code,
                                       !.status = "draft", !.total_amount = <<0>>]
        IN  IF ~permitted
               THEN /\ call' = [call EXCEPT ![p] =
                          [c0 EXCEPT !.code = 302, !.message = "Access denied"]]
                    /\ UNCHANGED <<invoice, nextId, invoices, lookups, req>>
               ELSE IF customer_code = <<>>
               THEN /\ call' = [call EXCEPT ![p] =
                          [c0 EXCEPT !.code = 400, !.message = "Please select a customer"]]
                    /\ UNCHANGED <<invoice, nextId, invoices, lookups, req>>
               ELSE IF serial_items = <<>>
               THEN /\ call' = [call EXCEPT ![p] =
                          [c0 EXCEPT !.code = 400,
                                     !.message = "Please add at least one serial item"]]
                    /\ UNCHANGED <<invoice, nextId, invoices, lookups, req>>
               ELSE /\ nextId' = nextId + 1
                    /\ req' = [req EXCEPT ![p] = serial_items]
                    /\ IF RowsClash(lookups, rows)
                       THEN /\ call' = [call EXCEPT ![p] =
                                  [c0 EXCEPT !.code = 500, !.invoice_id = nextId,
                                             !.message = "Error creating invoice"]]
                            /\ UNCHANGED <<invoice, invoices, lookups>>
                       ELSE /\ invoice' = [invoice EXCEPT ![p] = draft]
                            /\ invoices' = Append(invoices, draft)
                            /\ lookups' = lookups \o rows
                            /\ call' = [call EXCEPT ![p] =
                                  [c0 EXCEPT !.code = 200, !.invoice_id = nextId,
                                             !.message = "Invoice created successfully"]]
    /\ UNCHANGED <<now, sapDocs, cached, items_data, sap_invoice, last>>
    /\ UNCHANGED migVars

\* A create request of a user who holds the permission.
Create(p, lists) == CreateAs(p, lists, {TRUE})

\* ------------------------------------------------------- end of a request

\* What is remembered of a request that returned.
Returned(c) ==
    [op |-> c.op, serial |-> c.serial, at |-> c.at, queries |-> c.queries, code |-> c.code]

NoLast == Returned(NoCall)

\* The response leaves and the request's session is removed: whatever was
\* added or flushed but not committed is gone.
Return(p) ==
    /\ pc[p] = "ret"
    /\ last' = Returned(call[p])
    /\ pc' = [pc EXCEPT ![p] = "idle"]
    /\ call' = [call EXCEPT ![p] = NoCall]
    /\ req' = [req EXCEPT ![p] = NoReq]
    /\ cached' = [cached EXCEPT ![p] = NoRow]
    /\ invoice' = [invoice EXCEPT ![p] = NoInvoice]
    /\ items_data' = [items_data EXCEPT ![p] = <<>>]
    /\ sap_invoice' = [sap_invoice EXCEPT ![p] = NoPayload]
    /\ UNCHANGED <<now, lookups, invoices, nextId, sapDocs>>
    /\ UNCHANGED migVars

\* Time passes.
Tick ==
    /\ now + TickMinutes <= MaxTime
    /\ now' = now + TickMinutes
    /\ UNCHANGED <<lookups, invoices, nextId, sapDocs, pc, req, cached, invoice,
                   items_data, sap_invoice, call, last>>
    /\ UNCHANGED migVars

\* ------------------------------------------------------ database schema

\* The tables of create_tables, in the order of its dict.
Tables ==
    << "document_number_series", "branches", "users", "invoice_documents",
       "invoice_lines", "invoice_serial_numbers", "serial_number_lookups",
       "serial_item_transfers", "serial_item_transfer_items", "bin_locations" >>

\* A database without tables.
NoSchema ==
    [tables |-> {}, branch_name |-> FALSE, bpl_id |-> FALSE, bpl_name |-> FALSE,
     idx_bpl_id |-> FALSE]

\* INFORMATION_SCHEMA.TABLES has invoice_documents.
HasTable(s) == "invoice_documents" \in s.tables

\* CREATE TABLE IF NOT EXISTS of create_tables: its invoice_documents has the
\* column branch_name and no BPL column.
CreateTable(s, table_name) ==
    IF table_name \in s.tables THEN s
    ELSE IF table_name = "invoice_documents"
    THEN [s EXCEPT !.tables = @ \cup {table_name}, !.branch_name = TRUE]
    ELSE [s EXCEPT !.tables = @ \cup {table_name}]

\* The database after the first k tables of create_tables.
RECURSIVE SchemaAfter(_)
SchemaAfter(k) == IF k = 0 THEN NoSchema ELSE CreateTable(SchemaAfter(k - 1), Tables[k])

\* The database create_tables leaves.
CreatedSchema == SchemaAfter(Len(Tables))

\* create_invoice_documents_table: CREATE TABLE IF NOT EXISTS with
\* branch_name, bpl_id, bpl_name and INDEX idx_bpl_id.
CreateInvoiceDocuments(s) ==
    IF HasTable(s) THEN s
    ELSE [tables |-> s.tables \cup {"invoice_documents"}, branch_name |-> TRUE,
          bpl_id |-> TRUE, bpl_name |-> TRUE, idx_bpl_id |-> TRUE]

\* column_exists: the count of INFORMATION_SCHEMA.COLUMNS; FALSE when the
\* query raises.
ColumnExists(s, column_name, answered) ==
    answered /\ HasTable(s) /\ s[column_name]

\* The column an ALTER TABLE ... ADD COLUMN ... AFTER ... is placed after.
After(column_name) == IF column_name = "bpl_id" THEN "branch_name" ELSE "bpl_id"

\* MySQL accepts ALTER TABLE invoice_documents ADD COLUMN column_name AFTER
\* After(column_name).
CanAddColumn(s, column_name) ==
    HasTable(s) /\ s[After(column_name)] /\ ~s[column_name]

\* MySQL accepts ALTER TABLE invoice_documents ADD INDEX idx_bpl_id (bpl_id).
CanAddIndex(s) == HasTable(s) /\ s.bpl_id /\ ~s.idx_bpl_id

\* -------------------------------------- BPLColumnsMigration.add_bpl_columns

\* No run of add_bpl_columns yet.  alters, commits and rollbacks count the
\* ALTER statements, connection.commit() and connection.rollback() of the
\* running call; start is the schema it began on, first the schema the
\* first call that did not raise left.
NoAdd ==
    [pc |-> "idle", runs |-> 0, alters |-> 0, commits |-> 0, rollbacks |-> 0,
     raised |-> FALSE, failed |-> "", start |-> NoSchema, first |-> <<>>]

\* except Exception of add_bpl_columns: rollback and re-raise.
AB_Raise(b, statement) ==
    [b EXCEPT !.pc = "raised", !.rollbacks = @ + 1, !.raised = TRUE, !.failed = statement]

\* add_bpl_columns is called.
AB_Begin ==
    /\ bpl.pc = "idle"
    /\ bpl.runs < MaxRuns
    /\ bpl' = [bpl EXCEPT !.pc = "table", !.alters = 0, !.commits = 0, !.rollbacks = 0,
                          !.raised = FALSE, !.failed = "", !.start = schema]
    /\ UNCHANGED <<schema, mc>>
    /\ UNCHANGED appVars

\* The table check, and create_invoice_documents_table when the table is
\* missing.
AB_Table ==
    /\ bpl.pc = "table"
    /\ \E answered, ok \in BOOLEAN :
        IF ~answered
        THEN bpl' = AB_Raise(bpl, "table check") /\ UNCHANGED schema
        ELSE IF HasTable(schema)
        THEN bpl' = [bpl EXCEPT !.pc = "bpl_id"] /\ UNCHANGED schema
        ELSE IF ok
        THEN /\ schema' = CreateInvoiceDocuments(schema)
             /\ bpl' = [bpl EXCEPT !.pc = "bpl_id"]
        ELSE bpl' = AB_Raise(bpl, "create table") /\ UNCHANGED schema
    /\ UNCHANGED mc
    /\ UNCHANGED appVars

\* "Check and add" of one column: the ALTER is issued when column_exists is
\* False; MySQL carries it out at once (DDL is not undone by a rollback).
AB_Column(column_name, next) ==
    /\ bpl.pc = column_name
    /\ \E answered, ok \in BOOLEAN :
        IF ColumnExists(schema, column_name, answered)
        THEN bpl' = [bpl EXCEPT !.pc = next] /\ UNCHANGED schema
        ELSE LET b == [bpl EXCEPT !.alters = @ + 1]
             IN  IF ok /\ CanAddColumn(schema, column_name)
                 THEN /\ schema' = [schema EXCEPT ![column_name] = TRUE]
                      /\ bpl' = [b EXCEPT !.pc = next]
                 ELSE bpl' = AB_Raise(b, column_name) /\ UNCHANGED schema
    /\ UNCHANGED mc
    /\ UNCHANGED appVars

\* The index block: whatever raises in it is logged and passed over.
AB_Index ==
    /\ bpl.pc = "index"
    /\ \E answered, ok \in BOOLEAN :
        IF ~answered
        THEN bpl' = [bpl EXCEPT !.pc = "commit", !.failed = "index check"]
             /\ UNCHANGED schema
        ELSE IF HasTable(schema) /\ schema.idx_bpl_id
        THEN bpl' = [bpl EXCEPT !.pc = "commit"] /\ UNCHANGED schema
        ELSE LET b == [bpl EXCEPT !.alters = @ + 1, !.pc = "commit"]
             IN  IF ok /\ CanAddIndex(schema)
                 THEN schema' = [schema EXCEPT !.idx_bpl_id = TRUE] /\ bpl' = b
                 ELSE bpl' = [b EXCEPT !.failed = "index"] /\ UNCHANGED schema
    /\ UNCHANGED mc
    /\ UNCHANGED appVars

\* self.connection.commit()
AB_Commit ==
    /\ bpl.pc = "commit"
    /\ \E ok \in BOOLEAN :
        LET b == [bpl EXCEPT !.commits = @ + 1]
        IN  IF ok THEN bpl' = [b EXCEPT !.pc = "done"]
            ELSE bpl' = AB_Raise(b, "commit")
    /\ UNCHANGED <<schema, mc>>
    /\ UNCHANGED appVars

\* The call has ended, by return or by the exception.
AB_End ==
    /\ bpl.pc \in {"done", "raised"}
    /\ bpl' = [bpl EXCEPT !.pc = "idle", !.runs = @ + 1,
                          !.first = IF @ = <<>> /\ bpl.pc = "done" THEN <<schema>> ELSE @]
    /\ UNCHANGED <<schema, mc>>
    /\ UNCHANGED appVars

\* ------------------------------ MySQLMigrationInvoiceComplete.run_migration

\* No run of run_migration yet.  steps lists the migration steps called, in
\* the order of their calls; connection is self.connection: none, open or
\* closed; result is what run_migration returns.
NoRun ==
    [pc |-> "idle", runs |-> 0, k |-> 0, steps |-> <<>>, connection |-> "none",
     result |-> "none", failed |-> "", closes |-> 0, env_file |-> FALSE]

\* except Exception of run_migration: return False, by way of finally.
RM_Fail(m, step) == [m EXCEPT !.pc = "finally", !.result = "False", !.failed = step]

\* A step of the migration is called.
RM_Call(m, step) == [m EXCEPT !.pc = step, !.steps = Append(@, step)]

\* run_migration is called on a new MySQLMigrationInvoiceComplete;
\* get_database_config may raise (int() of the port).
RM_Begin ==
    /\ mc.pc = "idle"
    /\ mc.runs < MaxRuns
    /\ \E ok \in BOOLEAN :
        LET m == [NoRun EXCEPT !.runs = mc.runs]
        IN  mc' = IF ok THEN [m EXCEPT !.pc = "connect"] ELSE RM_Fail(m, "config")
    /\ UNCHANGED <<schema, bpl>>
    /\ UNCHANGED appVars

\* connect: pymysql.connect and connection.cursor(); False when either
\* raises, the second with self.connection already set.
RM_Connect ==
    /\ mc.pc = "connect"
    /\ \E outcome \in {"connected", "no connection", "no cursor"} :
        mc' = IF outcome = "connected"
              THEN RM_Call([mc EXCEPT !.connection = "open"], "create_tables")
              ELSE IF outcome = "no cursor"
              THEN RM_Fail([mc EXCEPT !.connection = "open"], "connect")
              ELSE RM_Fail(mc, "connect")
    /\ UNCHANGED <<schema, bpl>>
    /\ UNCHANGED appVars

\* One round of the loop of create_tables: the CREATE TABLE IF NOT EXISTS of
\* the next table, which MySQL carries out at once, or its exception.
RM_CreateTable ==
    /\ mc.pc = "create_tables"
    /\ mc.k < Len(Tables)
    /\ \E ok \in BOOLEAN :
        IF ok
        THEN /\ schema' = CreateTable(schema, Tables[mc.k + 1])
             /\ mc' = [mc EXCEPT !.k = @ + 1]
        ELSE /\ mc' = RM_Fail(mc, "create_tables")
             /\ UNCHANGED schema
    /\ UNCHANGED bpl
    /\ UNCHANGED appVars

\* The commit that ends create_tables; insert_default_data is called next.
RM_TablesCommit ==
    /\ mc.pc = "create_tables"
    /\ mc.k = Len(Tables)
    /\ \E ok \in BOOLEAN :
        mc' = IF ok THEN RM_Call(mc, "insert_default_data")
              ELSE RM_Fail(mc, "create_tables")
    /\ UNCHANGED <<schema, bpl>>
    /\ UNCHANGED appVars

\* insert_default_data: every INSERT IGNORE is in its own try; only the
\* commit at its end can raise.
RM_InsertDefaultData ==
    /\ mc.pc = "insert_default_data"
    /\ \E ok \in BOOLEAN :
        mc' = IF ok THEN RM_Call(mc, "create_performance_indexes")
              ELSE RM_Fail(mc, "insert_default_data")
    /\ UNCHANGED <<schema, bpl>>
    /\ UNCHANGED appVars

\* create_performance_indexes: every CREATE INDEX is in its own try; only
\* the commit at its end can raise.
RM_CreatePerformanceIndexes ==
    /\ mc.pc = "create_performance_indexes"
    /\ \E ok \in BOOLEAN :
        mc' = IF ok THEN RM_Call(mc, "create_env_file")
              ELSE RM_Fail(mc, "create_performance_indexes")
    /\ UNCHANGED <<schema, bpl>>
    /\ UNCHANGED appVars

\* create_env_file writes .env or logs that it could not; return True.
RM_CreateEnvFile ==
    /\ mc.pc = "create_env_file"
    /\ \E written \in BOOLEAN :
        mc' = [mc EXCEPT !.pc = "finally", !.result = "True", !.env_file = written]
    /\ UNCHANGED <<schema, bpl>>
    /\ UNCHANGED appVars

\* A finally that closes the connection of a run that succeeded only.
RM_FinallyOnSuccess ==
    /\ mc.pc = "finally"
    /\ mc' = IF mc.connection = "open" /\ mc.result = "True"
              THEN [mc EXCEPT !.pc = "returned", !.connection = "closed", !.closes = @ + 1]
              ELSE [mc EXCEPT !.pc = "returned"]
    /\ UNCHANGED <<schema, bpl>>
    /\ UNCHANGED appVars

\* finally: if self.connection: self.connection.close()
RM_Finally ==
    /\ mc.pc = "finally"
    /\ mc' = IF mc.connection = "open"
              THEN [mc EXCEPT !.pc = "returned", !.connection = "closed", !.closes = @ + 1]
              ELSE [mc EXCEPT !.pc = "returned"]
    /\ UNCHANGED <<schema, bpl>>
    /\ UNCHANGED appVars

\* The script has ended; it can be run again.
RM_End ==
    /\ mc.pc = "returned"
    /\ mc' = [mc EXCEPT !.pc = "idle", !.runs = @ + 1]
    /\ UNCHANGED <<schema, bpl>>
    /\ UNCHANGED appVars

\* ----------------------------------------------------------- specifications

\* No request is being served.
Serving ==
    /\ pc = [p \in Procs |-> "idle"]
    /\ req = [p \in Procs |-> NoReq]
    /\ cached = [p \in Procs |-> NoRow]
    /\ invoice = [p \in Procs |-> NoInvoice]
    /\ items_data = [p \in Procs |-> <<>>]
    /\ sap_invoice = [p \in Procs |-> NoPayload]
    /\ call = [p \in Procs |-> NoCall]
    /\ last = NoLast

\* The application on the database create_tables has made, no migration
\* running, no request being served.
Idle ==
    /\ schema = CreatedSchema
    /\ bpl = NoAdd
    /\ mc = NoRun
    /\ Serving

\* The application after the migration: empty tables.
Init ==
    /\ now = 0
    /\ lookups = <<>>
    /\ invoices = <<>>
    /\ nextId = 1
    /\ sapDocs = 0
    /\ Idle

\* The serial numbers the callers of SpecCache ask for and the record SAP
\* holds for them.
ActiveSerials == {"SN1", "SN2"}
ActiveCatalog == { c \in Catalog : c.ItemCode = "A_B" }

\* The lookup cache over time: lookup_serial and create requests, served one
\* at a time, each to its end, while the clock advances.
NextCache ==
    \/ LS_Begin(MainProc, ActiveSerials \cup {""})
    \/ LS_Login(MainProc)
    \/ LS_Query(MainProc, SapValues(ActiveCatalog))
    \/ (nextId <= MaxInvoices /\ Create(MainProc, SeqUpTo(ActiveSerials, MaxItems)))
    \/ Return(MainProc)
    \/ Tick

SpecCache == Init /\ [][NextCache]_vars

\* The lookup tables in which every serial number has no row or one row of
\* the catalog: what lookup_serial leaves behind.
RECURSIVE LookupTables(_)
LookupTables(serials) ==
    IF serials = <<>> THEN {<<>>}
    ELSE LET rest == LookupTables(Tail(serials))
         IN  rest \cup { <<LookupRow(Head(serials), c, 0)>> \o t : c \in Catalog, t \in rest }

\* An invoice table left by an earlier request: empty, or one record that is
\* a draft of create, or a created or failed record of create_invoice.
PriorLine ==
    [line_number |-> 0, item_code |-> "A", item_description |-> "item A", quantity |-> 1,
     warehouse_code |-> "C", tax_code |-> "CSGST@18",
     serials |-> <<[serial_number |-> "SN1", base_line_number |-> 0, quantity |-> 1]>>]

PriorInvoices ==
    { <<>>,
      <<[NoInvoice EXCEPT !.id = 1, !.customer_code = <<"C">>, !.status = "draft",
                          !.total_amount = <<0>>]>>,
      <<[NoInvoice EXCEPT !.id = 1, !.customer_code = <<"C">>, !.status = "created",
                          !.total_amount = <<118>>, !.sap_doc_entry = <<1>>,
                          !.sap_doc_num = <<1>>, !.sap_response = "document",
                          !.lines = <<PriorLine>>]>>,
      <<[NoInvoice EXCEPT !.id = 1, !.customer_code = <<"C">>, !.status = "failed",
                          !.sap_response = "plain text", !.lines = <<PriorLine>>]>> }

\* One request on a populated database.
InitRequest ==
    /\ now = 0
    /\ lookups \in LookupTables(<<"SN1", "SN2", "SN3">>)
    /\ invoices \in PriorInvoices
    /\ nextId = Len(invoices) + 1
    /\ sapDocs = Cardinality({ i \in 1..Len(invoices) : invoices[i].status = "created" })
    /\ Idle

NextRequest ==
    \/ (last = NoLast /\ CI_Begin(MainProc, SeqUpTo(Serials, MaxLen)))
    \/ CI_Resolve(MainProc)
    \/ CI_Build(MainProc)
    \/ CI_Login(MainProc)
    \/ CI_Post(MainProc)
    \/ (last = NoLast /\ Create(MainProc, SeqUpTo(Serials, MaxLen)))
    \/ Return(MainProc)

SpecRequest == InitRequest /\ [][NextRequest]_vars

\* create_invoice requests over time, served one at a time: the lookup row of
\* SN1 was written at minute 0, SN2 has none, and the clock advances.
InitClock ==
    /\ now = 0
    /\ lookups \in { <<LookupRow("SN1", c, 0)>> : c \in ActiveCatalog }
    /\ invoices = <<>>
    /\ nextId = 1
    /\ sapDocs = 0
    /\ Idle

NextClock ==
    \/ (nextId <= MaxInvoices + 1 /\ CI_Begin(MainProc, SeqUpTo(ActiveSerials, MaxItems)))
    \/ CI_Resolve(MainProc)
    \/ CI_Build(MainProc)
    \/ CI_Login(MainProc)
    \/ CI_Post(MainProc)
    \/ Return(MainProc)
    \/ Tick

SpecClock == InitClock /\ [][NextClock]_vars

\* One create_invoice request on a database without invoices.
InitSubmit ==
    /\ now = 0
    /\ lookups \in LookupTables(<<"SN1", "SN2", "SN3">>)
    /\ invoices = <<>>
    /\ nextId = 1
    /\ sapDocs = 0
    /\ Idle

NextSubmit ==
    \/ (last = NoLast /\ CI_Begin(MainProc, SeqUpTo(Serials, MaxLen)))
    \/ CI_Resolve(MainProc)
    \/ CI_Build(MainProc)
    \/ CI_Login(MainProc)
    \/ CI_Post(MainProc)
    \/ Return(MainProc)

SpecSubmit == InitSubmit /\ [][NextSubmit]_vars

\* The doc_date a create_invoice request can carry: none, or the next day.
DocDates == {<<>>, <<MinutesPerDay>>}

\* Requests of callers with and without the permission, with and without a
\* doc_date, served one at a time while the clock advances.
NextCaller ==
    \/ (nextId <= MaxInvoices
          /\ CI_Request(MainProc, SeqUpTo(ActiveSerials, MaxItems), DocDates, BOOLEAN))
    \/ CI_Resolve(MainProc)
    \/ CI_Build(MainProc)
    \/ CI_Login(MainProc)
    \/ CI_Post(MainProc)
    \/ (nextId <= MaxInvoices
          /\ CreateAs(MainProc, SeqUpTo(ActiveSerials, MaxItems), BOOLEAN))
    \/ Return(MainProc)
    \/ Tick

SpecCaller == InitClock /\ [][NextCaller]_vars

\* The records SAP can return to the two concurrent lookups.
ConcurrentCatalog == { c \in Catalog : c.BPLid = "BPL1" }

\* Two lookup_serial requests served at the same time by two workers, each
\* followed up to its response, on a cache that is empty, holds a row of SN1
\* older than an hour, or that row and a fresh row of SN2.
InitConcurrent ==
    /\ now = FreshnessMinutes
    /\ \E c \in ActiveCatalog :
          lookups \in { <<>>,
                        <<LookupRow("SN1", c, 0)>>,
                        <<LookupRow("SN1", c, 0), LookupRow("SN2", c, TickMinutes)>> }
    /\ invoices = <<>>
    /\ nextId = 1
    /\ sapDocs = 0
    /\ Idle

NextConcurrent ==
    \E p \in Procs :
        \/ LS_Begin(p, ActiveSerials)
        \/ LS_Login(p)
        \/ LS_Query(p, SapValues(ConcurrentCatalog))

SpecConcurrent == InitConcurrent /\ [][NextConcurrent]_vars

\* The four operations on one store, served one at a time, on a cache that
\* is empty or holds a row of SN1 older than an hour.
InitStore ==
    /\ now = FreshnessMinutes
    /\ \E c \in ActiveCatalog : lookups \in { <<>>, <<LookupRow("SN1", c, 0)>> }
    /\ invoices = <<>>
    /\ nextId = 1
    /\ sapDocs = 0
    /\ Idle

NextStore ==
    \/ LS_Begin(MainProc, ActiveSerials)
    \/ LS_Login(MainProc)
    \/ LS_Query(MainProc, SapValues(ActiveCatalog))
    \/ VS(MainProc, ActiveSerials \cup {""}, SapValues(ActiveCatalog))
    \/ (nextId <= MaxInvoices /\ Create(MainProc, SeqUpTo(ActiveSerials, MaxItems)))
    \/ (nextId <= MaxInvoices /\ CI_Begin(MainProc, SeqUpTo(ActiveSerials, MaxItems)))
    \/ CI_Resolve(MainProc)
    \/ CI_Build(MainProc)
    \/ CI_Login(MainProc)
    \/ CI_Post(MainProc)
    \/ Return(MainProc)

SpecStore == InitStore /\ [][NextStore]_vars

\* The application is not in use: empty tables, no request.
Unused ==
    /\ now = 0
    /\ lookups = <<>>
    /\ invoices = <<>>
    /\ nextId = 1
    /\ sapDocs = 0
    /\ Serving

\* The databases add_bpl_columns can meet: without invoice_documents, or
\* with it and any of branch_name, bpl_id, bpl_name and the index on bpl_id.
Schemas ==
    { s \in [tables : {{}, {"users"}, {"users", "invoice_documents"}},
             branch_name : BOOLEAN, bpl_id : BOOLEAN, bpl_name : BOOLEAN,
             idx_bpl_id : BOOLEAN] :
        /\ ~HasTable(s) => (~s.branch_name /\ ~s.bpl_id /\ ~s.bpl_name)
        /\ s.idx_bpl_id => s.bpl_id }

\* add_bpl_columns, run up to MaxRuns times on one database.
InitBPL ==
    /\ schema \in Schemas
    /\ bpl = NoAdd
    /\ mc = NoRun
    /\ Unused

NextBPL ==
    \/ AB_Begin
    \/ AB_Table
    \/ AB_Column("bpl_id", "bpl_name")
    \/ AB_Column("bpl_name", "index")
    \/ AB_Index
    \/ AB_Commit
    \/ AB_End

SpecBPL == InitBPL /\ [][NextBPL]_vars

\* run_migration, run up to MaxRuns times, on a database that is empty or
\* holds the first tables of an earlier run.
InitMigration ==
    /\ \E k \in 0..Len(Tables) : schema = SchemaAfter(k)
    /\ bpl = NoAdd
    /\ mc = NoRun
    /\ Unused

NextMigration ==
    \/ RM_Begin
    \/ RM_Connect
    \/ RM_CreateTable
    \/ RM_TablesCommit
    \/ RM_InsertDefaultData
    \/ RM_CreatePerformanceIndexes
    \/ RM_CreateEnvFile
    \/ RM_Finally
    \/ RM_End

SpecMigration == InitMigration /\ [][NextMigration]_vars

\* ------------------------------------------------------------------ claims

\* The lookup row of a serial number that has one.
RowOf(serial_number) == lookups[FindLookup(lookups, serial_number)]

\* The requests whose grouping loop has ended with every serial resolved.
Grouped == { p \in Procs : pc[p] = "ci_build" }

\* The serial numbers of a line group, in its order.
GroupSerialNumbers(group) ==
    [j \in 1..Len(group.SerialNumbers) |-> group.SerialNumbers[j].InternalSerialNumber]

\* How often x occurs in the sequence seq.
Occurs(seq, x) == Cardinality({ i \in 1..Len(seq) : seq[i] = x })

RECURSIVE SumQuantity(_)
SumQuantity(items) ==
    IF items = <<>> THEN 0 ELSE items[1].Quantity + SumQuantity(Tail(items))

\* The distinct elements of ks in the order of their first occurrence.
RECURSIVE FirstKeys(_)
FirstKeys(ks) ==
    IF ks = <<>> THEN <<>>
    ELSE LET front == FirstKeys(SubSeq(ks, 1, Len(ks) - 1))
             k == ks[Len(ks)]
         IN  IF \E i \in 1..Len(front) : front[i] = k THEN front ELSE Append(front, k)

KeysOfSerials(serial_numbers) ==
    [i \in 1..Len(serial_numbers) |-> GroupKey(RowOf(serial_numbers[i]))]

KeysOfGroups(items) == [k \in 1..Len(items) |-> items[k].key]

\* C1: in the payload and in the local records of create_invoice every serial
\* of the k-th line group (0-based) carries base line number k.
C1_BaseLineIsGroupIndex ==
    \A p \in Procs :
        call[p].built =>
            /\ \A k \in 1..Len(sap_invoice[p].DocumentLines) :
                 \A j \in 1..Len(sap_invoice[p].DocumentLines[k].SerialNumbers) :
                    sap_invoice[p].DocumentLines[k].SerialNumbers[j].BaseLineNumber = k - 1
            /\ \A k \in 1..Len(invoice[p].lines) :
                 \A j \in 1..Len(invoice[p].lines[k].serials) :
                    invoice[p].lines[k].serials[j].base_line_number = k - 1

\* C2: the grouping makes one line group per distinct (item_code,
\* warehouse_code) pair: two serials of the request are in the same group if
\* and only if their item codes and their warehouse codes are equal.
C2_OneGroupPerPair ==
    \A p \in Grouped :
        /\ Len(items_data[p]) =
              Cardinality({ <<RowOf(req[p][i]).item_code, RowOf(req[p][i]).warehouse_code>> :
                               i \in 1..Len(req[p]) })
        /\ \A i, j \in 1..Len(req[p]) :
              (\E k \in 1..Len(items_data[p]) :
                  /\ Occurs(GroupSerialNumbers(items_data[p][k]), req[p][i]) > 0
                  /\ Occurs(GroupSerialNumbers(items_data[p][k]), req[p][j]) > 0)
              <=> /\ RowOf(req[p][i]).item_code = RowOf(req[p][j]).item_code
                  /\ RowOf(req[p][i]).warehouse_code = RowOf(req[p][j]).warehouse_code

\* C3: the quantities of the line groups sum to the length of the serial
\* list, each group counts its own serials, and every serial of the list is
\* in exactly one group, as often as it is in the list.
C3_QuantitiesSumToInput ==
    \A p \in Grouped :
        /\ SumQuantity(items_data[p]) = Len(req[p])
        /\ \A k \in 1..Len(items_data[p]) :
              items_data[p][k].Quantity = Len(items_data[p][k].SerialNumbers)
        /\ \A i \in 1..Len(req[p]) :
              \E k \in 1..Len(items_data[p]) :
                 /\ Occurs(GroupSerialNumbers(items_data[p][k]), req[p][i])
                       = Occurs(req[p], req[p][i])
                 /\ \A m \in 1..Len(items_data[p]) :
                       m # k => Occurs(GroupSerialNumbers(items_data[p][m]), req[p][i]) = 0

\* A list of three different serials grouped into a line of two and a line of one.
C3_Witness ==
    \E p \in Grouped :
        /\ Len(req[p]) = 3
        /\ Cardinality({ req[p][i] : i \in 1..3 }) = 3
        /\ Len(items_data[p]) = 2
        /\ items_data[p][1].Quantity = 2
        /\ items_data[p][2].Quantity = 1

\* C4: the line groups come in the order in which their keys first occur in
\* the serial list, the serials of a group keep the order of the list, and a
\* reordered list with the same first occurrences of keys gives the same
\* order of groups.
C4_OrderStable ==
    \A p \in Grouped :
        /\ KeysOfGroups(items_data[p]) = FirstKeys(KeysOfSerials(req[p]))
        /\ \A k \in 1..Len(items_data[p]) :
              GroupSerialNumbers(items_data[p][k])
                 = SelectSeq(req[p], LAMBDA sn : GroupKey(RowOf(sn)) = items_data[p][k].key)
        /\ \A pi \in Permutations(1..Len(req[p])) :
              LET q == [i \in 1..Len(req[p]) |-> req[p][pi[i]]]
              IN  FirstKeys(KeysOfSerials(q)) = FirstKeys(KeysOfSerials(req[p]))
                  => KeysOfGroups(GroupSerials(q, 1, lookups, <<>>, 0).items)
                        = KeysOfGroups(items_data[p])

\* Three different serials, the first and the third of one key, the second of
\* another: the third joins the group the first one opened.
C4_Witness ==
    \E p \in Grouped :
        /\ Len(req[p]) = 3
        /\ Len(items_data[p]) = 2
        /\ GroupSerialNumbers(items_data[p][1]) = <<req[p][1], req[p][3]>>
        /\ GroupSerialNumbers(items_data[p][2]) = <<req[p][2]>>
        /\ req[p][1] # req[p][3]

\* The create_invoice requests that have their response.
ReturningInvoice == { p \in Procs : pc[p] = "ret" /\ call[p].op = "create_invoice" }

\* The committed invoice records with the given id.
Committed(id) == { i \in 1..Len(invoices) : invoices[i].id = id }

Terminal == {"created", "failed"}

\* C5: when a create_invoice that has built its payload returns, exactly one
\* invoice record of that request is committed, and its status is 'created'
\* or 'failed'.
C5_OneTerminalRecord ==
    \A p \in ReturningInvoice :
        call[p].built =>
            /\ Cardinality(Committed(call[p].invoice_id)) = 1
            /\ \A i \in Committed(call[p].invoice_id) : invoices[i].status \in Terminal

\* A status is kept, or moves from 'draft' to 'created' or 'failed'.
StatusStep(old, new) ==
    new.status # old.status => old.status = "draft" /\ new.status \in Terminal

Blank(c) ==
    ~c.has_customer \/ \A i \in 1..Len(c.customer_code) : c.customer_code[i] = " "

\* C7: a create_invoice with a blank customer code or an empty serial list
\* returns 400, has made no SAP login, query or submission, and has created no
\* invoice record, neither committed nor pending.
C7_BlankInputRejected ==
    \A p \in ReturningInvoice :
        (Blank(call[p].customer) \/ call[p].nserials = 0) =>
            /\ call[p].code = 400
            /\ call[p].logins = 0 /\ call[p].queries = 0 /\ call[p].posts = 0
            /\ call[p].invoice_id = 0
            /\ invoice[p] = NoInvoice
            /\ invoices \in PriorInvoices
            /\ nextId = Len(invoices) + 1
            /\ sapDocs = Cardinality({ i \in 1..Len(invoices) : invoices[i].status = "created" })

\* A request with a customer code of white space and three serial numbers was
\* answered 400.
C7_Witness ==
    \E p \in ReturningInvoice :
        /\ call[p].customer = [has_customer |-> TRUE, customer_code |-> <<" ">>]
        /\ call[p].nserials = 3
        /\ call[p].code = 400

Unresolved(serial_number) == FindLookup(lookups, serial_number) = NoRow

\* C8: a create_invoice whose serial list holds a serial number without a
\* lookup row never builds a payload and never posts a document; it returns
\* 400 and names the first such serial number of the list.
C8_UnresolvedAborts ==
    \A p \in Procs :
        (call[p].op = "create_invoice"
            /\ \E i \in 1..Len(req[p]) : Unresolved(req[p][i])) =>
            /\ call[p].posts = 0
            /\ ~call[p].built
            /\ sap_invoice[p] = NoPayload
            /\ pc[p] \in {"ci_resolve", "ret"}
            /\ sapDocs = Cardinality({ i \in 1..Len(invoices) : invoices[i].status = "created" })
            /\ pc[p] = "ret" =>
                  /\ call[p].code = 400
                  /\ \E i \in 1..Len(req[p]) :
                        /\ req[p][i] = call[p].named
                        /\ Unresolved(req[p][i])
                        /\ \A j \in 1..(i - 1) : ~Unresolved(req[p][j])

\* The third serial number of the list is the one without a row, after two
\* that resolved.
C8_Witness ==
    \E p \in ReturningInvoice :
        /\ Len(req[p]) = 3
        /\ ~Unresolved(req[p][1]) /\ ~Unresolved(req[p][2])
        /\ Unresolved(req[p][3])
        /\ call[p].named = req[p][3]
        /\ call[p].code = 400

\* The lookup_serial requests that have their response.
ReturningLookup == { p \in Procs : pc[p] = "ret" /\ call[p].op = "lookup_serial" }

\* The request p returns right after an earlier lookup_serial of the same
\* serial number, less than one hour later.
SecondLookup(p) ==
    /\ p \in ReturningLookup
    /\ call[p].serial # ""
    /\ last.op = "lookup_serial"
    /\ last.serial = call[p].serial
    /\ call[p].at - last.at < FreshnessMinutes

\* C9 as stated: two lookup_serial calls for one serial number within the
\* hour, nothing in between, make exactly one SAP query together.
C9_TwoCallsOneQuery ==
    \A p \in Procs : SecondLookup(p) => last.queries + call[p].queries = 1

\* C9 amended: when the first of the two calls queried SAP and got a
\* non-empty result, the second is answered from the cache without a login or
\* a query: one SAP query together.
C9_SecondCallFromCache ==
    \A p \in Procs :
        (SecondLookup(p) /\ last.code = 200 /\ last.queries = 1) =>
            /\ call[p].queries = 0
            /\ call[p].logins = 0
            /\ call[p].code = 200
            /\ last.queries + call[p].queries = 1

\* The second call came half an hour after a first one that fetched the
\* serial from SAP.
C9_Witness ==
    \E p \in Procs :
        /\ SecondLookup(p)
        /\ last.code = 200 /\ last.queries = 1
        /\ call[p].at > last.at
        /\ call[p].queries = 0

\* The cache check of the call found a row at least one hour old.
FoundStale(c) == c.seen # <<>> /\ c.at - c.seen[1] >= FreshnessMinutes

\* The row the cache check found holds the data the call fetched, was
\* refreshed by the call, and is the only row of the serial number.
OverwrittenInPlace(p) ==
    /\ cached[p] # NoRow
    /\ lookups[cached[p]].serial_number = call[p].serial
    /\ CachedData(lookups[cached[p]]) = call[p].data
    /\ lookups[cached[p]].last_updated >= call[p].at
    /\ Cardinality({ i \in 1..Len(lookups) : lookups[i].serial_number = call[p].serial }) = 1

\* C10 as stated: a lookup_serial that found a row at least one hour old has
\* sent a new SAP query, and when it fetched a record the row is overwritten
\* in place.
C10_StaleQueriesSap ==
    \A p \in ReturningLookup :
        FoundStale(call[p]) =>
            /\ call[p].queries = 1
            /\ call[p].message = "fetched" => OverwrittenInPlace(p)

\* C10 amended: such a call is never answered from the cache: it asks SAP for
\* a session, sends the query when the login succeeded, and when it fetched a
\* record the row is overwritten in place.
C10_StaleGoesToSap ==
    \A p \in ReturningLookup :
        FoundStale(call[p]) =>
            /\ call[p].message # "cached"
            /\ call[p].logins = 1
            /\ call[p].message # "SAP connection failed" => call[p].queries = 1
            /\ call[p].message = "fetched" => OverwrittenInPlace(p)

\* A row written at minute 0 by create was found stale and replaced by the
\* record of SAP.
C10_Witness ==
    \E p \in ReturningLookup :
        /\ FoundStale(call[p])
        /\ call[p].message = "fetched"
        /\ call[p].seen = <<0>>
        /\ lookups[cached[p]].branch_id = "BPL1"
        /\ \E i \in 1..Len(invoices) : invoices[i].status = "draft"

\* The create requests that have their response.
ReturningCreate == { p \in Procs : pc[p] = "ret" /\ call[p].op = "create" }

\* The rows of the lookup table that hold the serial number.
RowsOf(serial_number) ==
    { i \in 1..Len(lookups) : lookups[i].serial_number = serial_number }

\* C11: the lookup table holds at most one row per serial number, and every
\* write of a lookup row is an upsert: a create whose input was accepted has
\* succeeded, and each of its serial items has its one row, holding the item
\* the request sent and refreshed by the request.
C11_OneEntryUpsert ==
    /\ \A serial_number \in Serials : Cardinality(RowsOf(serial_number)) <= 1
    /\ \A p \in ReturningCreate :
          req[p] # NoReq =>
             /\ call[p].code = 200
             /\ \A k \in 1..Len(req[p]) :
                   /\ Cardinality(RowsOf(req[p][k])) = 1
                   /\ \A i \in RowsOf(req[p][k]) :
                         /\ lookups[i].item_code = CreateItem.item_code
                         /\ lookups[i].warehouse_code = CreateItem.warehouse
                         /\ lookups[i].last_updated >= call[p].at

\* The submission was answered with a status other than 201, or the
\* transport failed.
Rejected(reply) ==
    \/ reply.kind = "exception"
    \/ reply.kind = "response" /\ reply.status_code # 201

\* The messages with which create_invoice reports a failed submission.
RemoteRejected ==
    {"sap error message", "plain text", "SAP invoice creation failed: status",
     "SAP invoice creation error"}

\* C12: when the submission was answered with a status other than 201 or the
\* transport failed, the returning create_invoice has committed its record
\* with status 'failed' and the error text as sap_response, and its message
\* is the one of the failed submission, not 'Internal error'.
C12_RejectedIsRecorded ==
    \A p \in ReturningInvoice :
        Rejected(call[p].reply) =>
            /\ Cardinality(Committed(call[p].invoice_id)) = 1
            /\ \A i \in Committed(call[p].invoice_id) :
                  /\ invoices[i].status = "failed"
                  /\ invoices[i].sap_response = call[p].reply.text
            /\ call[p].message \in RemoteRejected
            /\ call[p].message # "Internal error"

\* The payloads stored in json_payload by the requests that committed a record.
StoredPayloads ==
    { invoices[i].json_payload[1] :
         i \in { k \in 1..Len(invoices) : invoices[k].json_payload # <<>> } }

\* The two payloads were built from the same customer code and the same line
\* groups.
SameInputs(a, b) ==
    /\ a.CardCode = b.CardCode
    /\ a.DocumentLines = b.DocumentLines
    /\ a.BPL_IDAssignedToInvoice = b.BPL_IDAssignedToInvoice
    /\ a.BPLName = b.BPLName

\* C13: the payload a create_invoice has built is the payload every other
\* create_invoice built from the same customer code and the same line groups.
C13_PayloadDeterministic ==
    \A p \in Procs :
        call[p].built =>
            \A earlier \in StoredPayloads :
                SameInputs(earlier, sap_invoice[p]) => earlier = sap_invoice[p]

\* The create_invoice requests whose grouping loop has ended, with every
\* serial number resolved or at the first one that was not.
PastResolution ==
    { p \in Procs : /\ call[p].op = "create_invoice"
                    /\ req[p] # NoReq
                    /\ pc[p] \in {"ci_build", "ci_login", "ci_post", "ret"} }

\* The serial number had, when the request p was made, a lookup row younger
\* than one hour.
FreshFor(p, serial_number) ==
    /\ FindLookup(lookups, serial_number) # NoRow
    /\ call[p].at - RowOf(serial_number).last_updated < FreshnessMinutes

\* C14: create_invoice resolves every serial number of its list by the cache
\* rule: it has a lookup row younger than one hour, or the request has asked
\* SAP for it; no request builds a payload from a row one hour old or older.
C14_ResolvedByCacheRule ==
    \A p \in PastResolution :
        /\ \A k \in 1..Len(req[p]) : FreshFor(p, req[p][k]) \/ call[p].queries > 0
        /\ call[p].built =>
              \A k \in 1..Len(req[p]) :
                 \/ FreshFor(p, req[p][k])
                 \/ /\ call[p].queries > 0
                    /\ RowOf(req[p][k]).last_updated >= call[p].at

\* C15: the lines of every committed invoice record are numbered 0, 1, ...,
\* n-1 in their order, each line's quantity is at least 1 and is the number
\* of its serial rows; the lines of the record a create_invoice has just
\* committed are the line groups of the request, in their order.
C15_LinesNumberedFromZero ==
    /\ \A i \in 1..Len(invoices) :
          \A k \in 1..Len(invoices[i].lines) :
             /\ invoices[i].lines[k].line_number = k - 1
             /\ invoices[i].lines[k].quantity >= 1
             /\ invoices[i].lines[k].quantity = Len(invoices[i].lines[k].serials)
    /\ \A p \in ReturningInvoice :
          \A i \in Committed(call[p].invoice_id) :
             /\ Len(invoices[i].lines) = Len(items_data[p])
             /\ \A k \in 1..Len(items_data[p]) :
                   /\ invoices[i].lines[k].item_code = items_data[p][k].ItemCode
                   /\ invoices[i].lines[k].warehouse_code = items_data[p][k].WarehouseCode

\* A create_invoice has committed a record with two lines, numbered 0 and 1,
\* the first of two serials and the second of one.
C15_Witness ==
    \E p \in ReturningInvoice :
        \E i \in Committed(call[p].invoice_id) :
            /\ Len(invoices[i].lines) = 2
            /\ invoices[i].lines[1].line_number = 0
            /\ invoices[i].lines[1].quantity = 2
            /\ invoices[i].lines[2].line_number = 1
            /\ invoices[i].lines[2].quantity = 1

\* No serial number occurs twice in the sequence.
Distinct(serial_numbers) ==
    \A i, j \in 1..Len(serial_numbers) :
        i # j => serial_numbers[i] # serial_numbers[j]

\* C16: in every line create_invoice builds, in the line groups, in the
\* payload and in the local lines, each serial number is assigned at most
\* once, whatever the serial list of the request.
C16_SerialOncePerLine ==
    \A p \in Procs :
        call[p].op = "create_invoice" =>
            /\ \A k \in 1..Len(items_data[p]) :
                  Distinct(GroupSerialNumbers(items_data[p][k]))
            /\ \A k \in 1..Len(sap_invoice[p].DocumentLines) :
                  Distinct(GroupSerialNumbers(sap_invoice[p].DocumentLines[k]))
            /\ \A k \in 1..Len(invoice[p].lines) :
                  ~SerialRowsClash(invoice[p].lines[k])

\* C17: a lookup_serial that starts while the serial number has a row younger
\* than one hour is answered at once with 200 and the attributes of that
\* row, without a SAP login or query, and the lookup table stays as it is
\* until the request has returned.
C17_FreshHitNoRemote ==
    [][ \A p \in Procs :
          /\ \A i \in 1..Len(lookups) :
                (/\ pc[p] = "idle"
                 /\ call'[p].op = "lookup_serial"
                 /\ lookups[i].serial_number = call'[p].serial
                 /\ now - lookups[i].last_updated < FreshnessMinutes)
                => /\ pc'[p] = "ret"
                   /\ call'[p].code = 200
                   /\ call'[p].message = "cached"
                   /\ call'[p].data.ItemCode = lookups[i].item_code
                   /\ call'[p].data.itemName = lookups[i].item_name
                   /\ call'[p].data.WhsCode = lookups[i].warehouse_code
                   /\ call'[p].data.BPLid = lookups[i].branch_id
                   /\ call'[p].data.BPLName = lookups[i].branch_name
                   /\ call'[p].logins = 0
                   /\ call'[p].queries = 0
                   /\ lookups' = lookups
          /\ (call[p].message = "cached" /\ pc[p] = "ret") => lookups' = lookups ]_vars

\* A lookup_serial made half an hour after the row was written was answered
\* from the cache, and the row still has its timestamp.
C17_Witness ==
    \E p \in ReturningLookup :
        /\ call[p].message = "cached"
        /\ call[p].at = TickMinutes
        /\ call[p].seen = <<0>>
        /\ call[p].logins = 0 /\ call[p].queries = 0
        /\ lookups[cached[p]].last_updated = 0

\* The request p takes a step of lookup_serial.
LookupStep(p) ==
    /\ pc'[p] # pc[p]
    /\ pc[p] \in {"idle", "ls_login", "ls_query"}
    /\ call'[p].op = "lookup_serial"

\* C18: a step of lookup_serial changes the lookup table only when it ends
\* the request with the record fetched from SAP (status 200, a non-empty
\* result); a request that ends with 400, 404 or 500 - no serial number, not
\* found, query failed, login failed, transport error - leaves every row as
\* it was and adds none.
C18_WritesOnlyWhenFetched ==
    [][ \A p \in Procs :
          LookupStep(p) =>
             /\ lookups' # lookups =>
                   /\ call'[p].code = 200
                   /\ call'[p].message = "fetched"
                   /\ call'[p].queries = 1
             /\ call'[p].code \in {400, 404, 500} => lookups' = lookups
             /\ call'[p].message \in {"not found in SAP", "SAP query failed",
                                      "SAP connection failed", "SAP lookup error"}
                   => lookups' = lookups ]_vars

\* A row one hour old was found, SAP answered with an empty result, and the
\* row still has its timestamp and is the only row.
C18_Witness ==
    \E p \in ReturningLookup :
        /\ FoundStale(call[p])
        /\ call[p].code = 404
        /\ call[p].queries = 1
        /\ lookups[cached[p]].last_updated = call[p].seen[1]
        /\ Len(lookups) = 1

\* The total create_invoice stores for a created document.
TotalOf(reply) == IF reply.DocTotal = <<>> THEN <<0>> ELSE reply.DocTotal

\* C19: the record of a create_invoice is 'created' only when its submission
\* was answered with status 201, and then it holds the DocEntry, the DocNum
\* and the DocTotal of that answer (total 0 without a DocTotal); with any
\* other answer, or none, the record is not 'created'.
C19_CreatedOnlyOn201 ==
    \A p \in Procs :
        call[p].op = "create_invoice" =>
            /\ \A i \in Committed(call[p].invoice_id) :
                  /\ invoices[i].status = "created" =>
                        /\ call[p].reply.kind = "response"
                        /\ call[p].reply.status_code = 201
                        /\ invoices[i].sap_doc_entry = call[p].reply.DocEntry
                        /\ invoices[i].sap_doc_num = call[p].reply.DocNum
                        /\ invoices[i].total_amount = TotalOf(call[p].reply)
                  /\ call[p].reply.status_code # 201 => invoices[i].status # "created"
            /\ call[p].reply.status_code # 201 => invoice[p].status # "created"

\* A 201 answer without a DocTotal gave a 'created' record with total 0.
C19_Witness ==
    \E p \in ReturningInvoice :
        \E i \in Committed(call[p].invoice_id) :
            /\ invoices[i].status = "created"
            /\ call[p].reply.status_code = 201
            /\ call[p].reply.DocTotal = <<>>
            /\ invoices[i].total_amount = <<0>>
            /\ invoices[i].sap_doc_entry = call[p].reply.DocEntry

\* C20: a create_invoice posts at most one document; the step that posts
\* submits the request's own new draft and ends the request, whatever the
\* answer; no step changes a 'failed' record, and no document is created in
\* SAP without a post.
C20_OneSubmissionNoRetry ==
    [][ /\ \A p \in Procs :
             /\ call'[p].posts <= 1
             /\ call'[p].posts > call[p].posts =>
                   /\ pc'[p] = "ret"
                   /\ invoice[p].status = "draft"
                   /\ Committed(invoice[p].id) = {}
        /\ \A i \in 1..Len(invoices) :
              invoices[i].status = "failed" =>
                 /\ Len(invoices') >= i
                 /\ invoices'[i] = invoices[i]
        /\ sapDocs' # sapDocs => \E p \in Procs : call'[p].posts > call[p].posts ]_vars

\* A create_invoice whose one submission was rejected has returned with its
\* 'failed' record next to an earlier 'failed' record.
C20_Witness ==
    \E p \in ReturningInvoice :
        /\ call[p].posts = 1
        /\ Rejected(call[p].reply)
        /\ Len(invoices) = 2
        /\ invoices[1].status = "failed"
        /\ invoices[2].status = "failed"
        /\ invoices[2].id = call[p].invoice_id

\* C21: the DocDate of the payload is the doc_date of the request when it
\* carries one and the date of the clock during the request otherwise, and
\* the DocDueDate is the DocDate plus one day.
C21_IssueDateFromRequest ==
    \A p \in Procs :
        call[p].built =>
            /\ call[p].doc_date # <<>> => sap_invoice[p].DocDate = call[p].doc_date[1]
            /\ call[p].doc_date = <<>> =>
                  (call[p].at <= sap_invoice[p].DocDate /\ sap_invoice[p].DocDate <= now)
            /\ sap_invoice[p].DocDueDate = sap_invoice[p].DocDate + MinutesPerDay

\* The requests of create_invoice that hold a built payload.
Built == { p \in Procs : call[p].op = "create_invoice" /\ call[p].built }

\* C22: the branch id and the branch name in the header of a built payload are
\* those of the lookup row of the first serial of the input list, which are
\* those of the first line group, whatever branch the later serials have; the
\* payload carries a line for every group, of any branch.
C22_BranchOfFirstSerial ==
    \A p \in Built :
        /\ sap_invoice[p].BPL_IDAssignedToInvoice = RowOf(req[p][1]).branch_id
        /\ sap_invoice[p].BPLName = RowOf(req[p][1]).branch_name
        /\ sap_invoice[p].BPL_IDAssignedToInvoice = items_data[p][1].BPL_IDAssignedToInvoice
        /\ sap_invoice[p].BPLName = items_data[p][1].BPLName
        /\ Len(sap_invoice[p].DocumentLines) = Len(items_data[p])
        /\ \A i \in 1..Len(req[p]) :
              \E k \in 1..Len(sap_invoice[p].DocumentLines) :
                  \E j \in 1..Len(sap_invoice[p].DocumentLines[k].SerialNumbers) :
                      sap_invoice[p].DocumentLines[k].SerialNumbers[j].InternalSerialNumber
                          = req[p][i]

\* A payload whose later serial is of another branch than the first has been
\* posted to SAP.
C22_Witness ==
    \E p \in Built :
        /\ call[p].posts = 1
        /\ \E i \in 2..Len(req[p]) :
              RowOf(req[p][i]).branch_id # RowOf(req[p][1]).branch_id
        /\ Len(items_data[p]) > 1
        /\ items_data[p][Len(items_data[p])].BPL_IDAssignedToInvoice
              # sap_invoice[p].BPL_IDAssignedToInvoice

\* The lookup_serial requests past their cache check.
Looking == { p \in Procs : call[p].op = "lookup_serial" /\ pc[p] # "idle" }

\* The rows of the serial number.
RowsFor(serial_number) ==
    { i \in 1..Len(lookups) : lookups[i].serial_number = serial_number }

\* The store holds for the request's serial number what its cache check saw.
AsSeen(p) ==
    /\ FindLookup(lookups, call[p].serial) = cached[p]
    /\ cached[p] = NoRow => RowsFor(call[p].serial) = {}
    /\ cached[p] # NoRow =>
          /\ RowsFor(call[p].serial) = {cached[p]}
          /\ call[p].seen = <<lookups[cached[p]].last_updated>>

\* The store holds for the request's serial number the one row the request
\* wrote from SAP's answer.
AsWritten(p) ==
    /\ \E i \in 1..Len(lookups) :
          /\ RowsFor(call[p].serial) = {i}
          /\ cached[p] # NoRow => i = cached[p]
          /\ lookups[i].item_code = call[p].data.ItemCode
          /\ lookups[i].item_name = call[p].data.itemName
          /\ lookups[i].warehouse_code = call[p].data.WhsCode
          /\ lookups[i].branch_id = call[p].data.BPLid
          /\ lookups[i].branch_name = call[p].data.BPLName
          /\ lookups[i].last_updated = now
    /\ call[p].code = 200
    /\ call[p].queries = 1

\* C23: a lookup_serial request that runs while no other request works on
\* its serial number proceeds as if it ran alone: until it writes, the store
\* holds for its serial what its cache check saw; a fetched answer has
\* written exactly the row of its serial; every other answer has left that
\* row as seen; a cached answer has asked SAP nothing.
C23_DifferentSerialsIndependent ==
    \A p \in Looking :
        (\A q \in Procs \ {p} : call[q].serial # call[p].serial)
            => /\ call[p].message = "fetched" => AsWritten(p)
               /\ call[p].message # "fetched" => AsSeen(p)
               /\ call[p].message = "cached" =>
                     (call[p].queries = 0 /\ call[p].logins = 0 /\ cached[p] # NoRow)
               /\ pc[p] \in {"ls_login", "ls_query"} => call[p].message = ""

\* Two requests for the same serial number both found its row older than an
\* hour, both queried SAP and both wrote the row.
C23_Witness ==
    \E p, q \in Looking :
        /\ p # q
        /\ call[p].serial = call[q].serial
        /\ call[p].seen = <<0>> /\ call[q].seen = <<0>>
        /\ call[p].queries = 1 /\ call[q].queries = 1
        /\ call[p].message = "fetched" /\ call[q].message = "fetched"
        /\ cached[p] = cached[q]

\* The requests of create_invoice being served.
Creating == { p \in Procs : call[p].op = "create_invoice" /\ pc[p] # "idle" }

Stored == { lookups[i].serial_number : i \in 1..Len(lookups) }

\* C25: no step of lookup_serial, validate_serial_number, create or
\* create_invoice removes the lookup row of a serial number: every serial
\* number that has a row before a step has a row after it.
C25_LookupRowsNeverDeleted == [][Stored \subseteq Stored']_vars

\* A create_invoice has returned with an answer from SAP on a store that
\* holds the rows of SN1, refreshed after an hour, and of SN2.
C25_Witness ==
    /\ last.op = "create_invoice"
    /\ last.code \in {200, 500}
    /\ Stored = {"SN1", "SN2"}
    /\ \E i \in 1..Len(lookups) :
          lookups[i].serial_number = "SN1" /\ lookups[i].last_updated = now
    /\ pc[MainProc] = "ret"
    /\ call[MainProc].op = "validate_serial_number"

\* The serial assignments of the lines, in order.
RECURSIVE AssignedSerials(_)
AssignedSerials(lines) ==
    IF lines = <<>> THEN <<>>
    ELSE AssignedSerials(SubSeq(lines, 1, Len(lines) - 1))
            \o [j \in 1..Len(lines[Len(lines)].serials) |->
                    lines[Len(lines)].serials[j].serial_number]

\* The record holds a line for every line group of the request and an
\* assignment for every serial number of its input.
Whole(p, inv) ==
    /\ Len(inv.lines) = Len(items_data[p])
    /\ \A k \in 1..Len(inv.lines) :
          Len(inv.lines[k].serials) = Len(items_data[p][k].SerialNumbers)
    /\ Len(AssignedSerials(inv.lines)) = Len(req[p])
    /\ \A i \in 1..Len(req[p]) : Occurs(AssignedSerials(inv.lines), req[p][i]) >= 1

\* C26: while a create_invoice runs nothing of it is committed; when it
\* returns, either one record with a line for every line group and an
\* assignment for every serial number is committed, or no record, line or
\* assignment of the call is; a call ended by an unresolved serial, a failed
\* login or an internal error has committed nothing.
C26_AllOrNothing ==
    \A p \in Creating :
        LET recs == Committed(call[p].invoice_id)
        IN  /\ pc[p] # "ret" => recs = {}
            /\ Cardinality(recs) <= 1
            /\ \A i \in recs : Whole(p, invoices[i]) /\ invoices[i].json_payload # <<>>
            /\ call[p].code = 400 => recs = {}
            /\ call[p].message \in {"SAP connection failed", "Internal error"} => recs = {}
            /\ call[p].invoice_id = 0 => invoices \in PriorInvoices

\* A returned call has committed a record with two lines.
C26_Witness ==
    \E p \in ReturningInvoice :
        \E i \in Committed(call[p].invoice_id) :
            /\ Len(invoices[i].lines) = 2
            /\ Len(req[p]) = 3

\* The local lines mirror the document lines of the payload.
Mirror(payload, lines) ==
    /\ Len(lines) = Len(payload.DocumentLines)
    /\ \A k \in 1..Len(lines) :
          LET line == lines[k]
              doc  == payload.DocumentLines[k]
          IN  /\ line.line_number = k - 1
              /\ line.item_code = doc.ItemCode
              /\ line.item_description = doc.ItemDescription
              /\ line.warehouse_code = doc.WarehouseCode
              /\ line.tax_code = doc.TaxCode
              /\ line.quantity = doc.Quantity
              /\ Len(line.serials) = Len(doc.SerialNumbers)
              /\ \A j \in 1..Len(line.serials) :
                    /\ line.serials[j].serial_number = doc.SerialNumbers[j].InternalSerialNumber
                    /\ line.serials[j].base_line_number = doc.SerialNumbers[j].BaseLineNumber
                    /\ line.serials[j].quantity = 1
                    /\ doc.SerialNumbers[j].Quantity = 1

\* C27: the payload a create_invoice submits has one document line per line
\* group, and the k-th local line (line number k, from 0) has the item code,
\* description, warehouse code, tax code and quantity of the k-th document
\* line and its serial numbers with their base line numbers and quantity 1;
\* the same holds of every committed record and its stored payload.
C27_LocalMirrorsPayload ==
    /\ \A p \in Built :
          (pc[p] \in {"ci_login", "ci_post"} \/ call[p].posts = 1) =>
              /\ Len(sap_invoice[p].DocumentLines) = Len(items_data[p])
              /\ invoice[p] # NoInvoice =>
                    /\ Mirror(sap_invoice[p], invoice[p].lines)
                    /\ invoice[p].json_payload = <<sap_invoice[p]>>
    /\ \A i \in 1..Len(invoices) :
          invoices[i].json_payload # <<>> =>
              Mirror(invoices[i].json_payload[1], invoices[i].lines)

\* A submitted payload of two document lines, one of them with two serial
\* numbers, is committed with its local lines.
C27_Witness ==
    \E p \in Built :
        /\ call[p].posts = 1
        /\ Len(sap_invoice[p].DocumentLines) = 2
        /\ \E k \in 1..2 : sap_invoice[p].DocumentLines[k].Quantity = 2
        /\ \E i \in Committed(call[p].invoice_id) : Len(invoices[i].lines) = 2

\* C28: a request of create or create_invoice made by a user without the
\* permission 'invoice_creation' creates no local invoice record and sends
\* nothing to SAP.
C28_PermissionRequired ==
    \A p \in Procs :
        (call[p].op \in {"create", "create_invoice"} /\ ~call[p].permitted) =>
            /\ invoice[p] = NoInvoice
            /\ call[p].invoice_id = 0
            /\ Committed(call[p].invoice_id) = {}
            /\ call[p].logins = 0
            /\ call[p].posts = 0

\* invoice_documents has the columns bpl_id and bpl_name.
HasBplColumns(s) == HasTable(s) /\ s.bpl_id /\ s.bpl_name

\* invoice_documents has the two columns and the index idx_bpl_id.
Migrated(s) == HasBplColumns(s) /\ s.idx_bpl_id

\* C29: add_bpl_columns is idempotent.  Begun on a table that has bpl_id,
\* bpl_name and idx_bpl_id it issues no ALTER statement and, unless the table
\* check or the commit itself raises, commits; a call that returns leaves
\* both columns present; a second call that returns after a first one that
\* returned leaves the schema the first one left; a failure of the index
\* alone does not fail the call; a failure adding a column is followed by a
\* rollback and the exception.
C29_AddBplColumnsIdempotent ==
    /\ (bpl.pc # "idle" /\ Migrated(bpl.start)) =>
          /\ bpl.alters = 0
          /\ bpl.pc = "done" => bpl.commits = 1
          /\ bpl.pc = "raised" => bpl.failed \in {"table check", "commit"}
    /\ bpl.pc = "done" => HasBplColumns(schema)
    /\ (bpl.pc = "done" /\ bpl.first # <<>>) => schema = bpl.first[1]
    /\ (bpl.pc # "idle" /\ bpl.failed \in {"index", "index check"}) =>
          (bpl.pc \in {"commit", "done"} /\ ~bpl.raised)
    /\ (bpl.pc # "idle" /\ bpl.failed \in {"bpl_id", "bpl_name"}) =>
          (bpl.pc = "raised" /\ bpl.raised /\ bpl.rollbacks = 1 /\ bpl.commits = 0)

StepOrder ==
    <<"create_tables", "insert_default_data", "create_performance_indexes",
      "create_env_file">>

\* C30: run_migration calls its steps in the order create_tables,
\* insert_default_data, create_performance_indexes, create_env_file, each at
\* most once; after a failed connect no step is called and after a raise of
\* create_tables no later step, and the result is False; the result is True
\* only after all four steps; when run_migration has returned, a connection
\* that was established has been closed, once.
C30_StepsInOrderAndClosed ==
    /\ Len(mc.steps) <= Len(StepOrder)
    /\ mc.steps = SubSeq(StepOrder, 1, Len(mc.steps))
    /\ mc.failed = "connect" => (mc.steps = <<>> /\ mc.result = "False")
    /\ mc.failed = "create_tables" =>
          (mc.steps = <<"create_tables">> /\ mc.result = "False")
    /\ mc.result = "True" => (mc.steps = StepOrder /\ mc.failed = "")
    /\ mc.pc = "returned" =>
          /\ mc.result \in {"True", "False"}
          /\ mc.connection \in {"none", "closed"}
          /\ mc.connection = "closed" <=> mc.closes = 1
    /\ mc.connection = "none" => mc.steps = <<>>
    /\ mc.pc = "connect" => mc.steps = <<>>

\* A run whose create_tables raised after it had created tables has returned
\* False with its connection closed.
C30_Witness ==
    /\ mc.pc = "returned"
    /\ mc.failed = "create_tables"
    /\ mc.k = 4
    /\ HasTable(schema)
    /\ "invoice_lines" \notin schema.tables
    /\ mc.result = "False"
    /\ mc.connection = "closed"

====
